---- MODULE Spec2Model ----
(***************************************************************************)
(* Goal-planner backend (src/server.js, src/models/Goal.js).               *)
(*                                                                         *)
(* Three specifications over one state:                                    *)
(*   Spec      the goal service: create / list / toggle-task / delete /    *)
(*             replace-fields, with toggle-task split at its two awaits    *)
(*             (findById, save) so that requests interleave;               *)
(*   CrudSpec  the goal service without toggle-task, the generator         *)
(*             returning plans of any length, 366 days included;           *)
(*   AuthSpec  register / forgot-password / reset-password with the        *)
(*             process-global otpStore, reset-password split at its        *)
(*             awaits (bcrypt.hash, findOneAndUpdate).                     *)
(***************************************************************************)
EXTENDS Integers, Sequences, FiniteSets, TLC

\* ---------------------------------------------------------------- bounds
MaxUsers == 2
MaxGoals == 1
MaxGenLen == 1
MaxInFlight == 2

\* rule 3 of the generation prompt: "MUST NOT exceed 365 days"
MaxPlanDays == 365

Users == 1..MaxUsers
GoalIds == 1..MaxGoals
Workers == 1..MaxInFlight

\* Goal service: the Goal collection, the next _id, the toggle requests in
\* flight, the last response, the record of the last toggle
VARIABLES goals, nextGoalId, tlocal, resp, lastWrite

\* Accounts: the User collection (email -> password hash), otpStore, the clock,
\* the reset-password requests in flight, the last response, and for every
\* issued code the number of password changes it led to
VARIABLES users, otpStore, now, rlocal, aresp, nextSerial, used

goalVars == <<goals, nextGoalId, tlocal, resp, lastWrite>>
authVars == <<users, otpStore, now, rlocal, aresp, nextSerial, used>>
vars == <<goalVars, authVars>>

\* ------------------------------------------------------------ Goal model
Null == "null"
NoGoal == [_id |-> 0]

\* completed: { type: Boolean, default: false }
DefaultCompleted == FALSE

\* (variant of CastEntry: the default of completed taken as true)
CastEntryCompleted(e, i) ==
  [id |-> IF "id" \in DOMAIN e THEN e.id ELSE i,
   day |-> e.day,
   task |-> e.task,
   completed |-> IF "completed" \in DOMAIN e THEN e.completed ELSE TRUE]

\* One element of the roadmap array as the schema stores it: mongoose gives
\* each subdocument an _id and fills the default of completed.
CastEntry(e, i) ==
  [id |-> IF "id" \in DOMAIN e THEN e.id ELSE i,
   day |-> e.day,
   task |-> e.task,
   completed |-> IF "completed" \in DOMAIN e THEN e.completed ELSE DefaultCompleted]

CastRoadmap(r) == [i \in 1..Len(r) |-> CastEntry(r[i], i)]

\* title: { type: String, required: true }; userId required
ValidateGoal(doc) == doc.title # "" /\ doc.userId \in Users

\* ------------------------------------------------- the generator's answer
\* What model.generateContent may produce: it throws, or it returns text.
\* A text is described by whether it is wrapped in ```json fences and by the
\* JSON value its body denotes: no JSON at all, null, a JSON value that is
\* not an object (array, number, string, boolean), or an object with some of
\* the fields roadmap and adjustmentMessage.
GenEntry(i) == [day |-> i, task |-> "task"]
GenRoadmap(n) == [i \in 1..n |-> GenEntry(i)]

GenObjects(lens) ==
  {[t |-> "object", fields |-> [x \in {} |-> 0]]}
  \cup {[t |-> "object", fields |-> ("roadmap" :> GenRoadmap(n))] : n \in lens}
  \cup {[t |-> "object", fields |-> ("adjustmentMessage" :> m)] : m \in {Null, "", "msg"}}
  \cup {[t |-> "object",
         fields |-> ("roadmap" :> GenRoadmap(n)) @@ ("adjustmentMessage" :> Null)] :
           n \in lens}

GenBodies(lens) ==
  {[t |-> "malformed"], [t |-> "null"], [t |-> "nonobject"]} \cup GenObjects(lens)

GenOutcomes(lens) ==
  {[kind |-> "error"]}
  \cup {[kind |-> "text", fenced |-> FALSE, body |-> b] : b \in GenBodies(lens)}
  \cup {[kind |-> "text", fenced |-> TRUE, body |-> b] :
          b \in {[t |-> "malformed"]} \cup GenObjects({MaxGenLen})}

\* Roadmap lengths the generator returns: short plans, and, in CrudSpec, a
\* plan one day longer than the prompt allows
ShortLens == 0..MaxGenLen
AnyLens == ShortLens \cup {MaxPlanDays + 1}
ShortOutcomes == GenOutcomes(ShortLens)
AnyOutcomes == GenOutcomes(AnyLens)

\* text.replace(/```json|```/g, '').trim()
StripFences(text) == [text EXCEPT !.fenced = FALSE]

\* JSON.parse: throws on anything that is not JSON (fences included)
JSONParse(jsonStr) ==
  IF jsonStr.fenced \/ jsonStr.body.t = "malformed"
    THEN [threw |-> TRUE]
    ELSE [threw |-> FALSE, value |-> jsonStr.body]

\* parsedResponse.roadmap || []
RoadmapOrEmpty(value) ==
  IF value.t = "object" /\ "roadmap" \in DOMAIN value.fields
    THEN value.fields["roadmap"]
    ELSE <<>>

\* parsedResponse.adjustmentMessage || null
AdjustmentOrNull(value) ==
  IF value.t = "object" /\ "adjustmentMessage" \in DOMAIN value.fields
     /\ value.fields["adjustmentMessage"] # ""
    THEN value.fields["adjustmentMessage"]
    ELSE Null

GenerationFailed == [ok |-> FALSE]

\* The body of the try block of POST /api/goals up to the save: the document
\* the handler is about to save, or the jump to the catch block.
CreateResult(caller, title, gen, id) ==
  IF gen.kind = "error" THEN GenerationFailed
  ELSE LET parsed == JSONParse(StripFences(gen))
       IN IF parsed.threw THEN GenerationFailed
          \* property access on null throws a TypeError
          ELSE IF parsed.value.t = "null" THEN GenerationFailed
          ELSE LET doc == [_id |-> id,
                           userId |-> caller,
                           title |-> title,
                           adjustmentMessage |-> AdjustmentOrNull(parsed.value),
                           roadmap |-> CastRoadmap(RoadmapOrEmpty(parsed.value))]
               IN IF ValidateGoal(doc) THEN [ok |-> TRUE, doc |-> doc]
                  ELSE GenerationFailed

Titles == {"", "title"}

NoWrite == [op |-> "none"]

Response(op, caller, gid, status, body) ==
  [op |-> op, caller |-> caller, gid |-> gid, status |-> status, body |-> body]

\* POST /api/goals
Create(caller, title, gen) ==
  LET r == CreateResult(caller, title, gen, nextGoalId)
  IN IF r.ok
       THEN /\ nextGoalId <= MaxGoals
            /\ goals' = [goals EXCEPT ![nextGoalId] = r.doc]
            /\ nextGoalId' = nextGoalId + 1
            /\ resp' = Response("create", caller, nextGoalId, 200, {r.doc})
            /\ UNCHANGED <<tlocal, lastWrite, authVars>>
       ELSE /\ resp' = Response("create", caller, 0, 500, {})
            /\ UNCHANGED <<goals, nextGoalId, tlocal, lastWrite, authVars>>

\* GET /api/goals: Goal.find({ userId })
List(caller) ==
  /\ resp' = Response("list", caller, 0, 200,
                      {goals[g] : g \in {h \in GoalIds : goals[h] # NoGoal
                                                        /\ goals[h].userId = caller}})
  /\ UNCHANGED <<goals, nextGoalId, tlocal, lastWrite, authVars>>

\* goal.roadmap.id(taskId): position of the first subdocument with that _id,
\* 0 when there is none
FindTask(doc, tid) ==
  IF \E i \in 1..Len(doc.roadmap) : doc.roadmap[i].id = tid
    THEN CHOOSE i \in 1..Len(doc.roadmap) :
           /\ doc.roadmap[i].id = tid
           /\ \A j \in 1..(i - 1) : doc.roadmap[j].id # tid
    ELSE 0

\* (variant of ToggleDoc: task.completed = true)
ToggleDocSet(doc, tid) ==
  LET i == FindTask(doc, tid)
  IN [doc EXCEPT !.roadmap[i].completed = TRUE]

\* task.completed = !task.completed
ToggleDoc(doc, tid) ==
  LET i == FindTask(doc, tid)
  IN [doc EXCEPT !.roadmap[i].completed = ~doc.roadmap[i].completed]

\* (variant of SaveDoc: the flip is applied to the stored document at save time)
SaveDocReapplied(current, local) ==
  IF FindTask(current, local.tid) = 0 THEN current
  ELSE [current EXCEPT !.roadmap[FindTask(current, local.tid)].completed =
                          ~current.roadmap[FindTask(current, local.tid)].completed]

\* goal.save(): the document the request holds in memory replaces the stored
\* one. (A save that sends only the changed path, roadmap.<i>.completed, stores
\* the same document whenever nothing but that flag changed since the read.)
SaveDoc(current, local) == local.doc

\* (variant of MatchIdAndOwner: filter { _id: goalId })
MatchIdOnly(doc, caller) == doc # NoGoal

\* filter { _id: goalId, userId: req.user._id }
MatchIdAndOwner(doc, caller) == doc # NoGoal /\ doc.userId = caller

\* { $set: updates }: the fields named in the body replace the stored ones;
\* the roadmap is cast to the schema's subdocuments
Merge(doc, updates) ==
  [f \in DOMAIN doc |->
     IF f \in DOMAIN updates
       THEN IF f = "roadmap" THEN CastRoadmap(updates[f]) ELSE updates[f]
       ELSE doc[f]]

TaskIds == 1..MaxGenLen

\* Bodies a client sends to PUT /api/goals/:id: nothing, a new userId, or a new
\* roadmap (emptied, or cut down to one entry with either value of completed)
EditEntries == [id : 1..MaxGenLen, day : {1}, task : {"task"}, completed : BOOLEAN]
EditRoadmaps == {<<>>} \cup {<<e>> : e \in EditEntries}
UpdateBodies ==
  {[x \in {} |-> 0]}
  \cup {("userId" :> u) : u \in Users}
  \cup {("roadmap" :> r) : r \in EditRoadmaps}

\* Bookkeeping of the toggles, not program state.
\* tlocal[w].view tells what happened to the goal since request w read it:
\*   "fresh"  nothing was written,
\*   "raced"  exactly one write: a toggle of the same entry by a request that
\*            had read the same document,
\*   "stale"  anything else.
\* lastWrite describes the last successful toggle while no other write to that
\* goal followed it: run counts the toggles of one entry that ran back to
\* back, each reading what the previous one wrote; base is the stored document
\* before the first of them or, for a raced toggle, the document both requests
\* had read.
Overtaken(l, writer) ==
  IF l.pc = "saving" /\ l.gid = writer.gid
    THEN [l EXCEPT !.view = IF l.view = "fresh" /\ writer.view = "fresh"
                                 /\ l.tid = writer.tid
                               THEN "raced" ELSE "stale"]
    ELSE l

Invalidated(l, g) ==
  IF l.pc = "saving" /\ l.gid = g THEN [l EXCEPT !.view = "stale"] ELSE l

ToggleWrite(prev, current, local) ==
  LET second == /\ local.view = "fresh" /\ prev.op = "toggle" /\ prev.run = 1
                /\ prev.gid = local.gid /\ prev.tid = local.tid
  IN [op |-> "toggle", gid |-> local.gid, tid |-> local.tid, view |-> local.view,
      run |-> IF second THEN 2 ELSE IF local.view = "fresh" THEN 1 ELSE 0,
      base |-> IF second THEN prev.base
               ELSE IF local.view = "fresh" THEN current ELSE local.loaded]

OtherWrite(prev, g) ==
  IF prev.op = "toggle" /\ prev.gid = g THEN NoWrite ELSE prev

\* PUT /api/goals/:goalId/task/:taskId, up to the call of goal.save()
ToggleLoad(w, caller, g, t) ==
  /\ tlocal[w].pc = "idle"
  /\ LET goal == goals[g]   \* Goal.findById(goalId)
     IN IF goal = NoGoal \/ FindTask(goal, t) = 0
          THEN /\ resp' = Response("toggle", caller, g, 404, {})
               /\ UNCHANGED tlocal
          ELSE /\ tlocal' = [tlocal EXCEPT ![w] =
                    [pc |-> "saving", caller |-> caller, gid |-> g, tid |-> t,
                     loaded |-> goal, doc |-> ToggleDoc(goal, t), view |-> "fresh"]]
               /\ UNCHANGED resp
  /\ UNCHANGED <<goals, nextGoalId, lastWrite, authVars>>

\* ... the save completes (or rejects because the document is gone) and the
\* handler responds
ToggleSave(w) ==
  /\ tlocal[w].pc = "saving"
  /\ LET l == tlocal[w]
     IN IF goals[l.gid] = NoGoal
          THEN /\ resp' = Response("toggle", l.caller, l.gid, 500, {})
               /\ tlocal' = [tlocal EXCEPT ![w] = [pc |-> "idle"]]
               /\ UNCHANGED <<goals, lastWrite>>
          ELSE /\ goals' = [goals EXCEPT ![l.gid] = SaveDoc(goals[l.gid], l)]
               /\ resp' = Response("toggle", l.caller, l.gid, 200, {l.doc})
               /\ lastWrite' = ToggleWrite(lastWrite, goals[l.gid], l)
               /\ tlocal' = [v \in Workers |->
                               IF v = w THEN [pc |-> "idle"]
                               ELSE Overtaken(tlocal[v], l)]
  /\ UNCHANGED <<nextGoalId, authVars>>

\* DELETE /api/goals/:id: Goal.findOneAndDelete({ _id, userId })
Delete(caller, g) ==
  /\ IF MatchIdAndOwner(goals[g], caller)
       THEN /\ goals' = [goals EXCEPT ![g] = NoGoal]
            /\ resp' = Response("delete", caller, g, 200, {})
            /\ lastWrite' = OtherWrite(lastWrite, g)
            /\ tlocal' = [v \in Workers |-> Invalidated(tlocal[v], g)]
       ELSE /\ resp' = Response("delete", caller, g, 404, {})
            /\ UNCHANGED <<goals, lastWrite, tlocal>>
  /\ UNCHANGED <<nextGoalId, authVars>>

\* PUT /api/goals/:id: Goal.findOneAndUpdate({ _id, userId }, { $set }, { new })
ReplaceFields(caller, g, updates) ==
  /\ IF MatchIdAndOwner(goals[g], caller)
       THEN /\ goals' = [goals EXCEPT ![g] = Merge(goals[g], updates)]
            /\ resp' = Response("replace", caller, g, 200, {Merge(goals[g], updates)})
            /\ lastWrite' = OtherWrite(lastWrite, g)
            /\ tlocal' = [v \in Workers |-> Invalidated(tlocal[v], g)]
       ELSE /\ resp' = Response("replace", caller, g, 404, {})
            /\ UNCHANGED <<goals, lastWrite, tlocal>>
  /\ UNCHANGED <<nextGoalId, authVars>>

\* ---------------------------------------------------------------- accounts
MaxEmails == 1
MaxPasswords == 2
MaxCodes == 2
MaxIssued == 2
MaxTicks == 3

\* Math.floor(100000 + Math.random() * 900000): the smallest code
OtpMin == 100000
\* 10 * 60 * 1000
OtpTtlMs == 600000

Emails == 1..MaxEmails
Passwords == 1..MaxPasswords
OtpCodes == OtpMin..(OtpMin + MaxCodes - 1)

NoUser == [hash |-> 0]
NoOtp == [serial |-> 0]

\* bcrypt.hash(password, 10)
Hash(password) == [hash |-> password]

\* (number).toString(); a JSON body may carry the code as a string or a number
NumberToString(n) == [type |-> "string", digits |-> n]
JsonNumber(n) == [type |-> "number", digits |-> n]
SubmittedOtps == {NumberToString(n) : n \in OtpCodes} \cup {JsonNumber(n) : n \in OtpCodes}

AuthResponse(op, email, status, error) ==
  [op |-> op, email |-> email, status |-> status, error |-> error]

\* POST /api/register: user.save() rejects a second document with the email
Register(email, password) ==
  /\ IF users[email] = NoUser
       THEN /\ users' = [users EXCEPT ![email] = Hash(password)]
            /\ aresp' = AuthResponse("register", email, 200, "")
       ELSE /\ aresp' = AuthResponse("register", email, 400, "Email already exists")
            /\ UNCHANGED users
  /\ UNCHANGED <<otpStore, now, rlocal, nextSerial, used, goalVars>>

\* POST /api/forgot-password; the entry stays in otpStore when the mail fails
ForgotPassword(email, code, mailOk) ==
  /\ IF users[email] = NoUser
       THEN /\ aresp' = AuthResponse("forgot", email, 404, "User not found")
            /\ UNCHANGED <<otpStore, nextSerial>>
       ELSE /\ nextSerial <= MaxIssued
            /\ otpStore' = [otpStore EXCEPT ![email] =
                              [otp |-> NumberToString(code), expires |-> now + OtpTtlMs,
                               serial |-> nextSerial]]
            /\ nextSerial' = nextSerial + 1
            /\ aresp' = IF mailOk THEN AuthResponse("forgot", email, 200, "")
                        ELSE AuthResponse("forgot", email, 500, "Failed to send OTP")
  /\ UNCHANGED <<users, now, rlocal, used, goalVars>>

\* (variant of ResetOutcome: the expiry check left out)
ResetOutcomeNoExpiry(stored, otp, t) ==
  IF stored = NoOtp THEN "Invalid or expired OTP request"
  ELSE IF stored.otp # otp THEN "Invalid OTP"
  ELSE "ok"

\* the three checks of POST /api/reset-password, in their order
ResetOutcome(stored, otp, t) ==
  IF stored = NoOtp THEN "Invalid or expired OTP request"
  ELSE IF stored.expires < t THEN "OTP has expired"
  ELSE IF stored.otp # otp THEN "Invalid OTP"
  ELSE "ok"

\* POST /api/reset-password up to the call of bcrypt.hash
ResetCheck(w, email, otp, newPassword) ==
  /\ rlocal[w].pc = "idle"
  /\ LET storedOtpData == otpStore[email]
         outcome == ResetOutcome(storedOtpData, otp, now)
     IN IF outcome = "ok"
          THEN /\ rlocal' = [rlocal EXCEPT ![w] =
                    [pc |-> "hashing", email |-> email, newPassword |-> newPassword,
                     serial |-> storedOtpData.serial]]
               /\ UNCHANGED <<otpStore, aresp>>
          ELSE /\ aresp' = AuthResponse("reset", email, 400, outcome)
               /\ otpStore' = IF outcome = "OTP has expired"
                                THEN [otpStore EXCEPT ![email] = NoOtp]
                                ELSE otpStore
               /\ UNCHANGED rlocal
  /\ UNCHANGED <<users, now, nextSerial, used, goalVars>>

\* bcrypt.hash resolves; User.findOneAndUpdate is issued
ResetHashed(w) ==
  /\ rlocal[w].pc = "hashing"
  /\ rlocal' = [rlocal EXCEPT ![w] =
       [pc |-> "storing", email |-> rlocal[w].email,
        hashedPassword |-> Hash(rlocal[w].newPassword), serial |-> rlocal[w].serial]]
  /\ UNCHANGED <<users, otpStore, now, aresp, nextSerial, used, goalVars>>

\* the store applies { password: hashedPassword } to the user with that email
ResetStored(w) ==
  /\ rlocal[w].pc = "storing"
  /\ LET l == rlocal[w]
     IN /\ users' = IF users[l.email] = NoUser THEN users
                    ELSE [users EXCEPT ![l.email] = l.hashedPassword]
        /\ used' = [used EXCEPT ![l.serial] = @ + 1]
        /\ rlocal' = [rlocal EXCEPT ![w] = [pc |-> "stored", email |-> l.email]]
  /\ UNCHANGED <<otpStore, now, aresp, nextSerial, goalVars>>

\* findOneAndUpdate resolves: delete otpStore[email] and the response
ResetFinish(w) ==
  /\ rlocal[w].pc = "stored"
  /\ otpStore' = [otpStore EXCEPT ![rlocal[w].email] = NoOtp]
  /\ aresp' = AuthResponse("reset", rlocal[w].email, 200, "")
  /\ rlocal' = [rlocal EXCEPT ![w] = [pc |-> "idle"]]
  /\ UNCHANGED <<users, now, nextSerial, used, goalVars>>

\* Date.now() advances, by a millisecond or by the lifetime of a code
Tick(d) ==
  /\ (now \div OtpTtlMs) + (now % OtpTtlMs) < MaxTicks
  /\ now' = now + d
  /\ UNCHANGED <<users, otpStore, rlocal, aresp, nextSerial, used, goalVars>>

Init ==
  /\ goals = [g \in GoalIds |-> NoGoal]
  /\ nextGoalId = 1
  /\ tlocal = [w \in Workers |-> [pc |-> "idle"]]
  /\ resp = Response("none", 0, 0, 0, {})
  /\ lastWrite = NoWrite
  /\ users = [e \in Emails |-> NoUser]
  /\ otpStore = [e \in Emails |-> NoOtp]
  /\ now = 0
  /\ rlocal = [w \in Workers |-> [pc |-> "idle"]]
  /\ aresp = AuthResponse("none", 0, 0, "")
  /\ nextSerial = 1
  /\ used = [s \in 1..MaxIssued |-> 0]

Next ==
  \/ \E c \in Users, t \in Titles, gen \in ShortOutcomes : Create(c, t, gen)
  \/ \E c \in Users : List(c)
  \/ \E w \in Workers, c \in Users, g \in GoalIds, t \in TaskIds : ToggleLoad(w, c, g, t)
  \/ \E w \in Workers : ToggleSave(w)
  \/ \E c \in Users, g \in GoalIds : Delete(c, g)
  \/ \E c \in Users, g \in GoalIds, u \in UpdateBodies : ReplaceFields(c, g, u)

Spec == Init /\ [][Next]_vars

\* The goal service without the task toggle, with every length of plan the
\* generator can return
CrudNext ==
  \/ \E c \in Users, t \in Titles, gen \in AnyOutcomes : Create(c, t, gen)
  \/ \E c \in Users : List(c)
  \/ \E c \in Users, g \in GoalIds : Delete(c, g)
  \/ \E c \in Users, g \in GoalIds, u \in UpdateBodies : ReplaceFields(c, g, u)

CrudSpec == Init /\ [][CrudNext]_vars

\* Registration and password reset
AuthNext ==
  \/ \E e \in Emails, p \in Passwords : Register(e, p)
  \/ \E e \in Emails, c \in OtpCodes, ok \in BOOLEAN : ForgotPassword(e, c, ok)
  \/ \E w \in Workers, e \in Emails, o \in SubmittedOtps, p \in Passwords :
       ResetCheck(w, e, o, p)
  \/ \E w \in Workers : ResetHashed(w)
  \/ \E w \in Workers : ResetStored(w)
  \/ \E w \in Workers : ResetFinish(w)
  \/ \E d \in {1, OtpTtlMs} : Tick(d)

AuthSpec == Init /\ [][AuthNext]_vars

\* ------------------------------------------------------------ properties

\* the generator returned the object the prompt asks for
IsExpectedObject(gen) == gen.kind = "text" /\ gen.body.t = "object"

GeneratedLen(gen) ==
  IF "roadmap" \in DOMAIN gen.body.fields THEN Len(gen.body.fields["roadmap"]) ELSE 0

\* C1: a Create whose generation call fails, or whose returned text is not the
\* expected object, answers with the generation failure and leaves the stored
\* goals as they were.
CreateAllOrNothing ==
  [][\A c \in Users, t \in Titles, gen \in AnyOutcomes :
       (~IsExpectedObject(gen) /\ resp'.op = "create" /\ Create(c, t, gen))
         => (resp'.status = 500 /\ goals' = goals)]_vars

\* C2: no operation changes or returns a goal that belonged, when the
\* operation ran, to someone other than its caller.
OwnershipInvariant ==
  [][/\ \A g \in GoalIds :
          (goals[g] # NoGoal /\ goals'[g] # goals[g]) => goals[g].userId = resp'.caller
     /\ (resp' # resp /\ resp'.status = 200) =>
          \A d \in resp'.body :
             goals[d._id] # NoGoal => goals[d._id].userId = resp'.caller]_vars

\* C3: Delete and ReplaceFields on a goal of another user answer NotFound and
\* leave the stored goals as they were.
ForeignDeleteAndReplaceNotFound ==
  [][\A c \in Users, g \in GoalIds :
       (goals[g] # NoGoal /\ goals[g].userId # c) =>
         /\ (resp'.op = "delete" /\ Delete(c, g))
              => (resp'.status = 404 /\ goals' = goals)
         /\ \A u \in UpdateBodies :
              (resp'.op = "replace" /\ ReplaceFields(c, g, u))
                => (resp'.status = 404 /\ goals' = goals)]_vars

ForeignRequestRejected ==
  /\ resp.op \in {"delete", "replace"}
  /\ resp.status = 404
  /\ goals[resp.gid] # NoGoal
  /\ goals[resp.gid].userId # resp.caller

\* C4: a stored goal keeps the userId it was created with.
OwnerImmutable ==
  [][\A g \in GoalIds :
       (goals[g] # NoGoal /\ goals'[g] # NoGoal)
         => goals'[g].userId = goals[g].userId]_vars

\* C5: the goal a successful Create persists has at most 365 roadmap entries.
PlanAtMost365 ==
  (resp.op = "create" /\ resp.status = 200)
    => \A d \in resp.body : Len(d.roadmap) <= MaxPlanDays

\* C6: when the generator returns a well-formed object and Create succeeds, the
\* persisted roadmap is as long as the returned one (empty when there is none)
\* and none of its entries is completed.
CreatePersistsGeneratedRoadmap ==
  [][\A c \in Users, t \in Titles, gen \in AnyOutcomes :
       (/\ IsExpectedObject(gen)
        /\ resp'.op = "create"
        /\ resp'.status = 200
        /\ resp'.caller = c
        /\ Create(c, t, gen)) =>
          /\ Len(goals'[nextGoalId].roadmap) = GeneratedLen(gen)
          /\ \A i \in 1..Len(goals'[nextGoalId].roadmap) :
               ~goals'[nextGoalId].roadmap[i].completed]_vars

CreatedWithRoadmap ==
  /\ resp.op = "create"
  /\ resp.status = 200
  /\ goals[resp.gid] \in resp.body
  /\ Len(goals[resp.gid].roadmap) >= 1
  /\ \A i \in 1..Len(goals[resp.gid].roadmap) : ~goals[resp.gid].roadmap[i].completed

\* the document with the completed flag of the first entry named tid negated
FlippedOnce(d, tid) ==
  LET hits == {i \in 1..Len(d.roadmap) : d.roadmap[i].id = tid}
      first == CHOOSE i \in hits : \A j \in hits : i <= j
  IN [d EXCEPT !.roadmap =
        [i \in 1..Len(d.roadmap) |->
           IF i = first
             THEN [id |-> d.roadmap[i].id, day |-> d.roadmap[i].day,
                   task |-> d.roadmap[i].task,
                   completed |-> ~d.roadmap[i].completed]
             ELSE d.roadmap[i]]]

\* C7: two successful toggles of one entry, the second reading what the first
\* wrote and nothing else written to the goal in between, leave the goal as it
\* was before the first.
ToggleTwiceRestores ==
  (lastWrite.op = "toggle" /\ lastWrite.run = 2)
    => goals[lastWrite.gid] = lastWrite.base

ToggledTwice ==
  /\ lastWrite.op = "toggle"
  /\ lastWrite.run = 2
  /\ resp.op = "toggle"
  /\ resp.status = 200
  /\ goals[lastWrite.gid] = lastWrite.base

FailedResetKeepsPassword ==
  [][/\ \A w \in Workers, e \in Emails, o \in SubmittedOtps, p \in Passwords :
          (/\ \/ otpStore[e] = NoOtp
              \/ otpStore[e].expires < now
              \/ otpStore[e].otp # o
           /\ rlocal[w].pc = "idle"
           /\ ResetCheck(w, e, o, p))
            => (users' = users /\ aresp'.status = 400 /\ rlocal'[w].pc = "idle")
     /\ \A e \in Emails :
          (users[e] # NoUser /\ users'[e] # users[e]) =>
             \E w \in Workers : /\ rlocal[w].pc = "storing"
                                /\ rlocal'[w].pc = "stored"
                                /\ rlocal[w].email = e]_vars

ExpiredResetRejected ==
  /\ aresp.op = "reset"
  /\ aresp.status = 400
  /\ aresp.error = "OTP has expired"
  /\ users[aresp.email] # NoUser
  /\ otpStore[aresp.email] = NoOtp

\* C9: an issued code leads to at most one password change.
OtpSingleUse == \A s \in 1..MaxIssued : used[s] <= 1
====
